---------------------------- MODULE Spec2Model ----------------------------
(***************************************************************************)
(* ArtAdvisor (rniepce/daniart): the like endpoint with its taste-profile  *)
(* reinforcement (main.py) and the daily curation pipeline (curador.py),   *)
(* over the two tables obras and perfil_gosto.                             *)
(*                                                                         *)
(* Text is modelled as sequences of one-character strings so that split,   *)
(* strip and lower are computed, not assumed.  A SQLAlchemy session is     *)
(* modelled by what it holds in memory between its queries and its commit: *)
(* the objects it loaded (with the attribute values it set) and the        *)
(* objects it added; the tables change only at a commit.  Statements read  *)
(* the last committed state (the default of both supported databases).     *)
(***************************************************************************)
EXTENDS Integers, Sequences, FiniteSets, TLC

\* ------------------------------------------------------------------ bounds
\* like requests beside the pipeline (Spec) and on a curated table (SpecLikes)
MaxReqs == 1
MaxReqsLikes == 3
MaxRuns == 2
MaxDia == 2
MaxObras == 3
MaxResp == 11

Runs == 1..MaxRuns

\* -------------------------------------------------------------------- text
Range(s) == {s[i] : i \in 1..Len(s)}

\* str.lower(), one character
LowerChar(c) == CASE c = "A" -> "a" [] c = "B" -> "b" [] OTHER -> c

\* str.lower()
Lower(s) == [i \in 1..Len(s) |-> LowerChar(s[i])]

RECURSIVE LStrip(_)
LStrip(s) == IF s # <<>> /\ Head(s) = " " THEN LStrip(Tail(s)) ELSE s

RECURSIVE RStrip(_)
RStrip(s) ==
  IF s # <<>> /\ s[Len(s)] = " " THEN RStrip(SubSeq(s, 1, Len(s) - 1)) ELSE s

\* str.strip()
Strip(s) == RStrip(LStrip(s))

\* position of the first comma of s, 0 when it has none
RECURSIVE FirstComma(_, _)
FirstComma(s, i) ==
  IF i > Len(s) THEN 0 ELSE IF s[i] = "," THEN i ELSE FirstComma(s, i + 1)

\* str.split(","): always at least one piece
RECURSIVE Split(_)
Split(s) ==
  LET k == FirstComma(s, 1)
  IN IF k = 0 THEN <<s>>
     ELSE <<SubSeq(s, 1, k - 1)>> \o Split(SubSeq(s, k + 1, Len(s)))

\* [t.strip().lower() for t in tags_extraidas.split(",")]
TagList(s) == LET p == Split(s) IN [i \in 1..Len(p) |-> Lower(Strip(p[i]))]

\* ------------------------------------------------------------------ tables
\* Rows of obras (class Obra); the primary key is the row's position.  The
\* field run is not a column: it records which pipeline run added the row.
\* Rows of perfil_gosto (class PerfilGosto): tag (unique), peso.
VARIABLES obras, perfil

\* date.today(), as a day number
VARIABLE hoje

\* like[q]: the dar_like request q: where it stands and what its session holds
VARIABLE like

\* whether some like request ever started while another was in progress
VARIABLE sobreposto

\* run[r]: the invocation r of rodar_curadoria: its stage, its local
\* variables (buscas: how each search ended), and a record of what it did
\* (curou: calls of the curator, salvas: rows it committed) and of what its
\* trigger answered to the caller (resposta, for POST /curadoria/rodar)
VARIABLE run

\* the last response of GET /feed/hoje: the ids of the rows returned
VARIABLE feed

vars == <<obras, perfil, hoje, like, sobreposto, run, feed>>

\* the lookup without its filter on the tag: the first row, whatever its tag
PerfilIdxSemFiltro(p, t) == IF Len(p) > 0 THEN 1 ELSE 0

\* index of the row of perfil whose tag is t, 0 when there is none:
\* db.query(PerfilGosto).filter(PerfilGosto.tag == tag_nome).first()
PerfilIdx(p, t) ==
  IF \E i \in 1..Len(p) : p[i].tag = t
  THEN CHOOSE i \in 1..Len(p) : p[i].tag = t /\ \A j \in 1..(i - 1) : p[j].tag # t
  ELSE 0

\* a request that has not started, and the session fields once it is closed
LikeIdle ==
  [pc |-> "idle", obra_id |-> 0, curtiu |-> FALSE, tags |-> <<>>,
   carregados |-> <<>>, lidos |-> <<>>, novos |-> <<>>, resposta |-> FALSE]

InFlight(l) == l.pc \in {"tags", "commit", "refresh"}

\* dar_like, lines 140-148: the query for the artwork, the 404, the toggle in
\* the session and the split of the tag string
LikeStart(q, id) ==
  /\ like[q].pc = "idle"
  /\ \A p \in 1..(q - 1) : like[p].pc # "idle"
  /\ sobreposto' = (sobreposto \/ \E p \in DOMAIN like : InFlight(like[p]))
  /\ IF id > Len(obras)
     THEN like' = [like EXCEPT ![q] = [@ EXCEPT !.pc = "notfound", !.obra_id = id]]
     ELSE LET novo == ~obras[id].curtiu
              reforca == novo /\ obras[id].tags_extraidas # <<>>
          IN like' = [like EXCEPT ![q] =
                        [@ EXCEPT !.pc = IF reforca THEN "tags" ELSE "commit",
                                  !.obra_id = id,
                                  !.curtiu = novo,
                                  !.tags = IF reforca
                                           THEN TagList(obras[id].tags_extraidas)
                                           ELSE <<>>]]
  /\ UNCHANGED <<obras, perfil, hoje, run, feed>>

\* What one pass of the loop over the tags leaves in the session l, the table
\* being p: an empty tag is skipped; a row found is loaded once (later finds
\* return the loaded object, with the weight the session already gave it) and
\* its peso raised by 1; a tag not found adds a new object, which later
\* queries do not see (autoflush=False).
TagStep(l, p) ==
  LET t == Head(l.tags)
      i == PerfilIdx(p, t)
      rest == [l EXCEPT !.tags = Tail(l.tags),
                        !.pc = IF Tail(l.tags) = <<>> THEN "commit" ELSE "tags"]
  IN IF t = <<>> THEN rest
     ELSE IF i # 0
     THEN IF i \in DOMAIN l.carregados
          THEN [rest EXCEPT !.carregados = [@ EXCEPT ![i] = @ + 1]]
          ELSE [rest EXCEPT !.carregados = (i :> (p[i].peso + 1)) @@ @,
                            !.lidos = (i :> p[i].peso) @@ @]
     ELSE [rest EXCEPT !.novos = Append(@, t)]

\* dar_like, lines 150-157: one iteration of the loop (one query)
LikeTag(q) ==
  /\ like[q].pc = "tags"
  /\ like' = [like EXCEPT ![q] = TagStep(like[q], perfil)]
  /\ UNCHANGED <<obras, perfil, hoje, sobreposto, run, feed>>

\* whether the INSERTs of the flush break UNIQUE(tag): a new tag that has a
\* committed row by now, or that the session adds twice
UniqueViolation(l, p) ==
  \/ \E i \in 1..Len(l.novos) : PerfilIdx(p, l.novos[i]) # 0
  \/ \E i, j \in 1..Len(l.novos) : i # j /\ l.novos[i] = l.novos[j]

\* the table perfil_gosto after the flush of session l: each loaded row gets
\* the weight the session holds (UPDATE ... SET peso = <value>), each added
\* object becomes a row
FlushPerfil(l, p) ==
  [i \in 1..Len(p) |->
     IF i \in DOMAIN l.carregados THEN [p[i] EXCEPT !.peso = l.carregados[i]]
     ELSE p[i]]
  \o [i \in 1..Len(l.novos) |-> [tag |-> l.novos[i], peso |-> 1]]

\* a commit in two parts: the artwork's flag first, then the profile, so that
\* a constraint violation on the profile leaves the flag written
LikeCommitParcial(q) ==
  /\ like[q].pc = "commit"
  /\ obras' = [obras EXCEPT ![like[q].obra_id].curtiu = like[q].curtiu]
  /\ IF UniqueViolation(like[q], perfil)
     THEN /\ like' = [like EXCEPT ![q] = [LikeIdle EXCEPT !.pc = "erro",
                                            !.obra_id = like[q].obra_id]]
          /\ UNCHANGED perfil
     ELSE /\ perfil' = FlushPerfil(like[q], perfil)
          /\ like' = [like EXCEPT ![q] = [@ EXCEPT !.pc = "refresh"]]
  /\ UNCHANGED <<hoje, sobreposto, run, feed>>

\* a commit whose UPDATE of obras has no WHERE clause: every row gets the flag
LikeCommitTodas(q) ==
  /\ like[q].pc = "commit"
  /\ IF UniqueViolation(like[q], perfil)
     THEN /\ like' = [like EXCEPT ![q] = [LikeIdle EXCEPT !.pc = "erro",
                                            !.obra_id = like[q].obra_id]]
          /\ UNCHANGED <<obras, perfil>>
     ELSE /\ obras' = [i \in 1..Len(obras) |-> [obras[i] EXCEPT !.curtiu = like[q].curtiu]]
          /\ perfil' = FlushPerfil(like[q], perfil)
          /\ like' = [like EXCEPT ![q] = [@ EXCEPT !.pc = "refresh"]]
  /\ UNCHANGED <<hoje, sobreposto, run, feed>>

\* dar_like, line 159: db.commit().  A constraint violation raises, nothing is
\* committed and the request ends as an error.
LikeCommit(q) ==
  /\ like[q].pc = "commit"
  /\ IF UniqueViolation(like[q], perfil)
     THEN /\ like' = [like EXCEPT ![q] = [LikeIdle EXCEPT !.pc = "erro",
                                            !.obra_id = like[q].obra_id]]
          /\ UNCHANGED <<obras, perfil>>
     ELSE /\ obras' = [obras EXCEPT ![like[q].obra_id].curtiu = like[q].curtiu]
          /\ perfil' = FlushPerfil(like[q], perfil)
          /\ like' = [like EXCEPT ![q] = [@ EXCEPT !.pc = "refresh"]]
  /\ UNCHANGED <<hoje, sobreposto, run, feed>>

\* dar_like, lines 160-161: db.refresh(obra), the response, and the close of
\* the session by get_db
LikeRefresh(q) ==
  /\ like[q].pc = "refresh"
  /\ like' = [like EXCEPT ![q] =
                [@ EXCEPT !.pc = "ok", !.resposta = obras[like[q].obra_id].curtiu,
                          !.carregados = <<>>, !.novos = <<>>]]
  /\ UNCHANGED <<obras, perfil, hoje, sobreposto, run, feed>>

\* ---------------------------------------------------------------- pipeline
\* dict.get(key, default)
Get(d, k, default) == IF k \in DOMAIN d THEN d[k] ELSE default

\* a JSON integer
Int_(n) == [t |-> "int", v |-> n]

\* a JSON string where an integer is expected
Str_ == [t |-> "str", v |-> 0]

\* What a search of the catalogue can answer: the request raises (no
\* connection), a status other than 200, or 200 with a list of items, some
\* without an image_id; or no answer ever comes on a connection that stays
\* open (requests.post is called without timeout, line 81).
SearchResponses ==
  { [kind |-> "raise", data |-> <<>>],
    [kind |-> "espera", data |-> <<>>],
    [kind |-> "http", data |-> <<>>],
    [kind |-> "ok", data |-> <<>>],
    [kind |-> "ok", data |-> << [title |-> "t1", artist_title |-> "p1"] >>],
    [kind |-> "ok", data |-> << [image_id |-> "X1", title |-> "t1", artist_title |-> "p1"] >>],
    [kind |-> "ok", data |-> << [image_id |-> "X1", title |-> "t2"],
                                [image_id |-> "X2", title |-> "t1", artist_title |-> "p2"] >>] }

\* buscar_obras_contemporaneas, lines 90-114: the items with an image_id, as
\* candidates (the fields that only go into the prompt are left out)
RECURSIVE Candidatos(_)
Candidatos(items) ==
  IF items = <<>> THEN <<>>
  ELSE LET item == Head(items)
       IN IF Get(item, "image_id", "") = "" THEN Candidatos(Tail(items))
          ELSE << [titulo_original |-> Get(item, "title", "Untitled"),
                   artista |-> Get(item, "artist_title", "Unknown"),
                   image_id |-> item.image_id] >> \o Candidatos(Tail(items))

\* buscar_obras_contemporaneas, lines 81-88, for a response that arrived
Buscar(resp) == IF resp.kind = "http" THEN <<>> ELSE Candidatos(resp.data)

\* the merge without vistas.add: nothing is ever seen
RECURSIVE DedupSemAdd(_, _)
DedupSemAdd(s, vistas) ==
  IF s = <<>> THEN <<>>
  ELSE IF Head(s).image_id \in vistas THEN DedupSemAdd(Tail(s), vistas)
  ELSE <<Head(s)>> \o DedupSemAdd(Tail(s), vistas)

\* rodar_curadoria, lines 217-222: the candidates of s whose image_id is not in
\* vistas, each image_id once, in the order of s
RECURSIVE Dedup(_, _)
Dedup(s, vistas) ==
  IF s = <<>> THEN <<>>
  ELSE IF Head(s).image_id \in vistas THEN Dedup(Tail(s), vistas)
  ELSE <<Head(s)>> \o Dedup(Tail(s), vistas \cup {Head(s).image_id})

\* The selections the curator is seen to return (the value of "obras" in its
\* JSON answer); a key may be missing, an index may be anything.
SelA == [index |-> Int_(0), titulo |-> "T1", artista |-> "P", tags |-> <<"A">>]
SelA1 == [index |-> Int_(1), titulo |-> "T1", tags |-> <<"A">>]
SelAB == [index |-> Int_(1), titulo |-> "T2", tags |-> <<"a", ",", " ", "B">>]
SelDup == [index |-> Int_(0), titulo |-> "T1", tags |-> <<"a", ",", "A", " ">>]
SelB == [index |-> Int_(0), titulo |-> "T2", tags |-> <<" ", ",", "b">>]
SelFora == [index |-> Int_(7), titulo |-> "T1", tags |-> <<"A">>]
SelSemIndex == [titulo |-> "T2", tags |-> <<"A">>]
SelNeg == [index |-> Int_(-1), titulo |-> "T1", tags |-> <<"A">>]
SelNegFora == [index |-> Int_(-9), titulo |-> "T1", tags |-> <<"A">>]
SelStr == [index |-> Str_, titulo |-> "T1", tags |-> <<"A">>]
SelNua == [index |-> Int_(0)]

Respostas ==
  { <<>>, <<SelA, SelAB>>, <<SelA, SelAB, SelA1>>, <<SelDup, SelA>>, <<SelFora, SelB>>, <<SelSemIndex>>,
    <<SelNeg>>, <<SelA, SelNegFora>>, <<SelA, SelStr>>, <<SelNua, SelAB>> }

\* the loop with obra_trad["titulo"] and obra_trad["tags"] in the place of
\* .get: a selection without one of the two keys raises
RECURSIVE NovasSemPadrao(_, _, _, _)
NovasSemPadrao(trad, todas, dia, r) ==
  IF trad = <<>> THEN [ok |-> TRUE, rows |-> <<>>]
  ELSE LET obra_trad == Head(trad)
           idx == Get(obra_trad, "index", Int_(0))
           resto == NovasSemPadrao(Tail(trad), todas, dia, r)
       IN IF idx.t # "int" THEN [ok |-> FALSE, rows |-> <<>>]
          ELSE IF idx.v >= Len(todas) THEN resto
          ELSE IF idx.v < -Len(todas) THEN [ok |-> FALSE, rows |-> <<>>]
          ELSE IF {"titulo", "tags"} \ DOMAIN obra_trad # {}
          THEN [ok |-> FALSE, rows |-> <<>>]
          ELSE LET obra_original ==
                     todas[IF idx.v >= 0 THEN idx.v + 1 ELSE Len(todas) + idx.v + 1]
                   nova == [titulo |-> << obra_trad.titulo,
                                          Get(obra_trad, "artista", obra_original.artista) >>,
                            imagem_url |-> obra_original.image_id,
                            tags_extraidas |-> obra_trad.tags,
                            data_exibicao |-> dia,
                            curtiu |-> FALSE,
                            run |-> r]
               IN [ok |-> resto.ok, rows |-> <<nova>> \o resto.rows]

\* rodar_curadoria, lines 235-248: the Obra objects the loop adds to the
\* session for the selections trad (rows), up to the iteration that raises if
\* one does (ok = FALSE): a missing index counts as 0; an index that is no
\* integer cannot be compared with len(todas_obras); an index below
\* len(todas_obras) is used as a list index, where a negative one counts from
\* the end and one below -len(todas_obras) raises; an index from
\* len(todas_obras) on is skipped.
RECURSIVE Novas(_, _, _, _)
Novas(trad, todas, dia, r) ==
  IF trad = <<>> THEN [ok |-> TRUE, rows |-> <<>>]
  ELSE LET obra_trad == Head(trad)
           idx == Get(obra_trad, "index", Int_(0))
           resto == Novas(Tail(trad), todas, dia, r)
       IN IF idx.t # "int" THEN [ok |-> FALSE, rows |-> <<>>]
          ELSE IF idx.v >= Len(todas) THEN resto
          ELSE IF idx.v < -Len(todas) THEN [ok |-> FALSE, rows |-> <<>>]
          ELSE LET obra_original ==
                     todas[IF idx.v >= 0 THEN idx.v + 1 ELSE Len(todas) + idx.v + 1]
                   nova == [titulo |-> << Get(obra_trad, "titulo", "Sem titulo"),
                                          Get(obra_trad, "artista", obra_original.artista) >>,
                            imagem_url |-> obra_original.image_id,
                            tags_extraidas |-> Get(obra_trad, "tags", <<>>),
                            data_exibicao |-> dia,
                            curtiu |-> FALSE,
                            run |-> r]
               IN [ok |-> resto.ok, rows |-> <<nova>> \o resto.rows]

\* a run that has not been triggered, and the locals of one that returned
RunIdle ==
  [pc |-> "Idle", origem |-> "", gosto |-> <<>>, obras_gpt |-> <<>>,
   obras_extra |-> <<>>, todas_obras |-> <<>>, obras_traduzidas |-> <<>>,
   buscas |-> <<>>, curou |-> 0, salvas |-> 0, resposta |-> ""]

Terminal(x) == x.pc \in {"Idle", "Done", "Failed"}

\* a return that puts the outcome of the run into the trigger's answer
FimRespondeEstado(x, estado) ==
  [RunIdle EXCEPT !.pc = estado, !.origem = x.origem, !.curou = x.curou,
                  !.salvas = x.salvas, !.resposta = estado]

\* the locals dropped on return, the stage and the printed record kept; what
\* the trigger answered is not touched
Fim(x, estado) ==
  [RunIdle EXCEPT !.pc = estado, !.origem = x.origem, !.curou = x.curou,
                  !.salvas = x.salvas, !.resposta = x.resposta]

\* _loop_agendador, lines 188-196: the scheduler's thread calls
\* _rodar_curadoria_segura itself, so it runs one scheduled run at a time
Agendado(r) ==
  /\ run[r].pc = "Idle"
  /\ \A p \in 1..(r - 1) : run[p].pc # "Idle"
  /\ \A p \in Runs : run[p].origem = "agendado" => Terminal(run[p])
  /\ run' = [run EXCEPT ![r] = [@ EXCEPT !.pc = "ReadingProfile", !.origem = "agendado"]]
  /\ UNCHANGED <<obras, perfil, hoje, like, sobreposto, feed>>

\* disparar_curadoria_manual, lines 203-207: a new thread per request, and
\* the response (its status text) right after Thread.start()
DispararManual(r) ==
  /\ run[r].pc = "Idle"
  /\ \A p \in 1..(r - 1) : run[p].pc # "Idle"
  /\ run' = [run EXCEPT ![r] = [@ EXCEPT !.pc = "ReadingProfile", !.origem = "manual",
                                         !.resposta = "Curadoria iniciada em background!"]]
  /\ UNCHANGED <<obras, perfil, hoje, like, sobreposto, feed>>

\* The answers of ORDER BY peso DESC LIMIT n on table p: the database orders
\* rows of equal peso as it likes.
TopTags(p, n) ==
  LET k == IF Len(p) < n THEN Len(p) ELSE n
  IN { g \in [1..k -> 1..Len(p)] :
         /\ \A i, j \in 1..k : i < j => g[i] # g[j] /\ p[g[i]].peso >= p[g[j]].peso
         /\ \A m \in 1..Len(p) :
              (\A i \in 1..k : g[i] # m) => \A i \in 1..k : p[g[i]].peso >= p[m].peso }

\* a read of the top tags that takes them out of the profile
ReadProfileConsome(r) ==
  /\ run[r].pc = "ReadingProfile"
  /\ \E g \in TopTags(perfil, 3) :
       /\ run' = [run EXCEPT ![r] =
                    [@ EXCEPT !.pc = "SynthesizingQuery",
                              !.gosto = [i \in 1..Len(g) |-> perfil[g[i]].tag]]]
       /\ perfil' = SelectSeq(perfil, LAMBDA e : \A i \in 1..Len(g) : perfil[g[i]].tag # e.tag)
  /\ UNCHANGED <<obras, hoje, like, sobreposto, feed>>

\* rodar_curadoria, lines 175-185: the query for the top tags answers or
\* raises (the database is locked or gone)
ReadProfile(r) ==
  /\ run[r].pc = "ReadingProfile"
  /\ \/ run' = [run EXCEPT ![r] = Fim(@, "Failed")]
     \/ \E g \in TopTags(perfil, 3) :
          run' = [run EXCEPT ![r] =
                    [@ EXCEPT !.pc = "SynthesizingQuery",
                              !.gosto = [i \in 1..Len(g) |-> perfil[g[i]].tag]]]
  /\ UNCHANGED <<obras, perfil, hoje, like, sobreposto, feed>>

\* rodar_curadoria, lines 189-210: the call for the search term returns or
\* raises; an exception ends the run in the except clause (rollback, close)
Synthesize(r) ==
  /\ run[r].pc = "SynthesizingQuery"
  /\ \E raised \in BOOLEAN :
       run' = [run EXCEPT ![r] =
                 IF raised THEN Fim(@, "Failed")
                 ELSE [@ EXCEPT !.pc = "Fetching", !.gosto = <<>>]]
  /\ UNCHANGED <<obras, perfil, hoje, like, sobreposto, feed>>

\* the first search going on to the merge, without the second
FetchGptDireto(r) ==
  /\ run[r].pc = "Fetching"
  /\ run[r].buscas = <<>>
  /\ \E resp \in SearchResponses :
       run' = [run EXCEPT ![r] =
                 IF resp.kind = "raise"
                 THEN Fim([@ EXCEPT !.buscas = <<"raise">>], "Failed")
                 ELSE IF resp.kind = "espera"
                 THEN [@ EXCEPT !.buscas = <<"espera">>]
                 ELSE [@ EXCEPT !.pc = "Deduplicating",
                                !.obras_gpt = Buscar(resp),
                                !.buscas = <<resp.kind>>]]
  /\ UNCHANGED <<obras, perfil, hoje, like, sobreposto, feed>>

\* rodar_curadoria, line 213: the search with the synthesized term.  An
\* exception of requests.post is not caught in buscar_obras_contemporaneas;
\* without an answer the thread stays in requests.post.
FetchGpt(r) ==
  /\ run[r].pc = "Fetching"
  /\ run[r].buscas = <<>>
  /\ \E resp \in SearchResponses :
       run' = [run EXCEPT ![r] =
                 IF resp.kind = "raise"
                 THEN Fim([@ EXCEPT !.buscas = <<"raise">>], "Failed")
                 ELSE IF resp.kind = "espera"
                 THEN [@ EXCEPT !.buscas = <<"espera">>]
                 ELSE [@ EXCEPT !.obras_gpt = Buscar(resp),
                                !.buscas = <<resp.kind>>]]
  /\ UNCHANGED <<obras, perfil, hoje, like, sobreposto, feed>>

\* rodar_curadoria, line 214: the search with the extra term
FetchExtra(r) ==
  /\ run[r].pc = "Fetching"
  /\ Len(run[r].buscas) = 1 /\ run[r].buscas[1] # "espera"
  /\ \E resp \in SearchResponses :
       run' = [run EXCEPT ![r] =
                 IF resp.kind = "raise"
                 THEN Fim([@ EXCEPT !.buscas = Append(@, "raise")], "Failed")
                 ELSE IF resp.kind = "espera"
                 THEN [@ EXCEPT !.buscas = Append(@, "espera")]
                 ELSE [@ EXCEPT !.pc = "Deduplicating",
                                !.obras_extra = Buscar(resp),
                                !.buscas = Append(@, resp.kind)]]
  /\ UNCHANGED <<obras, perfil, hoje, like, sobreposto, feed>>

\* the merge without the return on an empty list
DeduplicateSemRetorno(r) ==
  /\ run[r].pc = "Deduplicating"
  /\ run' = [run EXCEPT ![r] =
               [@ EXCEPT !.pc = "Curating",
                         !.todas_obras = Dedup(run[r].obras_gpt \o run[r].obras_extra, {}),
                         !.obras_gpt = <<>>, !.obras_extra = <<>>, !.buscas = <<>>]]
  /\ UNCHANGED <<obras, perfil, hoje, like, sobreposto, feed>>

\* rodar_curadoria, lines 216-228: the merge, and the return when it is empty
Deduplicate(r) ==
  /\ run[r].pc = "Deduplicating"
  /\ LET todas == Dedup(run[r].obras_gpt \o run[r].obras_extra, {})
     IN run' = [run EXCEPT ![r] =
                  IF todas = <<>> THEN Fim(@, "Done")
                  ELSE [@ EXCEPT !.pc = "Curating", !.todas_obras = todas,
                                 !.obras_gpt = <<>>, !.obras_extra = <<>>,
                                 !.buscas = <<>>]]
  /\ UNCHANGED <<obras, perfil, hoje, like, sobreposto, feed>>

\* rodar_curadoria, line 231 (traduzir_e_taguear, lines 122-162): the call to
\* the curator raises (transport, JSON that does not parse) or returns the
\* list under "obras", as it is
Curate(r) ==
  /\ run[r].pc = "Curating"
  /\ \/ run' = [run EXCEPT ![r] = Fim([@ EXCEPT !.curou = @ + 1], "Failed")]
     \/ \E resp \in Respostas :
          /\ Len(obras) + Len(resp) <= MaxObras
          /\ run' = [run EXCEPT ![r] =
                       [@ EXCEPT !.pc = "Persisting", !.curou = @ + 1,
                                 !.obras_traduzidas = resp]]
  /\ UNCHANGED <<obras, perfil, hoje, like, sobreposto, feed>>

\* a commit of the first new object alone
CommitPrimeira(tabela, novas) == tabela \o SubSeq(novas, 1, 1)

\* a commit that puts the day's batch in the place of the table
CommitSubstitui(tabela, novas) == novas

\* db.commit(), line 250: the table with the session's new objects
CommitObras(tabela, novas) == tabela \o novas

\* a rollback after the new objects were already written
RollbackTarde(tabela, novas) == tabela \o novas

\* db.rollback(), line 256: the table without them
Rollback(tabela, novas) == tabela

\* rodar_curadoria, lines 234-258: the loop that adds the new objects to the
\* session, then the commit; an exception in the loop or in the commit ends
\* in the except clause, with nothing written
Persist(r) ==
  /\ run[r].pc = "Persisting"
  /\ LET n == Novas(run[r].obras_traduzidas, run[r].todas_obras, hoje, r)
     IN \E commit_raises \in BOOLEAN :
          IF ~n.ok \/ commit_raises
          THEN /\ run' = [run EXCEPT ![r] = Fim(@, "Failed")]
               /\ obras' = Rollback(obras, n.rows)
          ELSE /\ obras' = CommitObras(obras, n.rows)
               /\ run' = [run EXCEPT ![r] =
                            Fim([@ EXCEPT !.salvas = Len(n.rows)], "Done")]
  /\ UNCHANGED <<perfil, hoje, like, sobreposto, feed>>

\* obter_feed_do_dia, line 130
FeedHoje(tabela, dia) == {i \in 1..Len(tabela) : tabela[i].data_exibicao = dia}

ObterFeed ==
  /\ feed' = FeedHoje(obras, hoje)
  /\ UNCHANGED <<obras, perfil, hoje, like, sobreposto, run>>

\* midnight
Tick ==
  /\ hoje < MaxDia
  /\ hoje' = hoje + 1
  /\ UNCHANGED <<obras, perfil, like, sobreposto, run, feed>>

\* -------------------------------------------------------------------- spec
\* after Base.metadata.create_all on an empty database
Init ==
  /\ obras = <<>>
  /\ perfil = <<>>
  /\ hoje = 1
  /\ like = [q \in 1..MaxReqs |-> LikeIdle]
  /\ sobreposto = FALSE
  /\ run = [r \in Runs |-> RunIdle]
  /\ feed = {}

LikeNext ==
  \E q \in DOMAIN like :
    \/ \E id \in 1..(Len(obras) + 1) : LikeStart(q, id)
    \/ LikeTag(q)
    \/ LikeCommit(q)
    \/ LikeRefresh(q)

RunNext ==
  \E r \in Runs :
    \/ Agendado(r)
    \/ DispararManual(r)
    \/ ReadProfile(r)
    \/ Synthesize(r)
    \/ FetchGpt(r)
    \/ FetchExtra(r)
    \/ Deduplicate(r)
    \/ Curate(r)
    \/ Persist(r)

Next == LikeNext \/ RunNext \/ ObterFeed \/ Tick

Spec == Init /\ [][Next]_vars

\* The pipeline alone, with runs that go on when they can: each run is a
\* thread of its own (the scheduler's, or one started by the manual trigger),
\* and no run waits for another.
SpecRuns == Init /\ [][RunNext]_vars /\ WF_vars(RunNext)

\* The like endpoint alone, on a table that one run of the pipeline left
\* (its two searches found X1 and X2, its commit went through).
InitLikes ==
  /\ \E resp \in Respostas :
       LET todas == Dedup(Buscar(CHOOSE x \in SearchResponses : Len(Candidatos(x.data)) = 2), {})
           n == Novas(resp, todas, 1, 1)
       IN n.ok /\ obras = CommitObras(<<>>, n.rows)
  /\ perfil = <<>>
  /\ hoje = 1
  /\ like = [q \in 1..MaxReqsLikes |-> LikeIdle]
  /\ sobreposto = FALSE
  /\ run = [r \in Runs |-> RunIdle]
  /\ feed = {}

SpecLikes == InitLikes /\ [][LikeNext]_vars

\* the answer that holds the selection sel n times
Repete(sel, n) == [i \in 1..n |-> sel]

\* The loop and the commit alone, on the answers of a curator that was asked
\* for 10 selections and returns a list of any length up to MaxResp: a manual
\* run that has just got that answer for the candidates its searches found.
InitPersist ==
  /\ obras = <<>>
  /\ perfil = <<>>
  /\ hoje = 1
  /\ like = [q \in 1..MaxReqs |-> LikeIdle]
  /\ sobreposto = FALSE
  /\ feed = {}
  /\ \E todas \in {Dedup(Buscar(x), {}) : x \in SearchResponses} \ {<<>>} :
     \E sel \in {SelA, SelAB, SelFora, SelStr, SelNua} :
     \E n \in 0..MaxResp :
       run = [r \in Runs |->
                IF r = 1
                THEN [RunIdle EXCEPT !.pc = "Persisting", !.origem = "manual",
                                     !.resposta = "Curadoria iniciada em background!",
                                     !.curou = 1, !.todas_obras = todas,
                                     !.obras_traduzidas = Repete(sel, n)]
                ELSE RunIdle]

PersistNext == \E r \in Runs : Persist(r)

SpecPersist == InitPersist /\ [][PersistNext]_vars

\* ------------------------------------------------------------------ claims
\* the normalized tags that the curator's tag strings of this model hold
NormTags == {<<"a">>, <<"b">>}

\* the weight the profile p gives tag t, 0 when t has no entry
WeightOf(p, t) ==
  IF \E i \in 1..Len(p) : p[i].tag = t
  THEN p[CHOOSE i \in 1..Len(p) : p[i].tag = t].peso
  ELSE 0

\* how often t occurs in the sequence s
Conta(t, s) == Cardinality({i \in 1..Len(s) : s[i] = t})

\* the normalized, non-empty tags of the artwork id
TagsDe(id) == Range(TagList(obras[id].tags_extraidas)) \ {<<>>}

\* the tags some entry of p or p2 has, and the ones the curator's strings hold
TagsEm(p, p2) == NormTags \cup {p[i].tag : i \in 1..Len(p)} \cup {p2[i].tag : i \in 1..Len(p2)}

\* request q committed a toggle into liked = true
Committed(q) == like[q].pc \in {"refresh", "ok"}
LikedBy(q) == Committed(q) /\ like[q].curtiu

\* C1: two like requests that ran concurrently (both read weight w of tag T
\* before either wrote), each turning a different artwork that carries T once
\* from not liked to liked, no other request having updated T or touched
\* these two artworks: once both are complete the weight of T is w + 2.
C1_NoLostUpdate ==
  \A q1, q2 \in DOMAIN like : \A i \in 1..Len(perfil) :
    ( /\ q1 < q2
      /\ like[q1].pc = "ok" /\ like[q1].curtiu
      /\ like[q2].pc = "ok" /\ like[q2].curtiu
      /\ like[q1].obra_id # like[q2].obra_id
      /\ Conta(perfil[i].tag, TagList(obras[like[q1].obra_id].tags_extraidas)) = 1
      /\ Conta(perfil[i].tag, TagList(obras[like[q2].obra_id].tags_extraidas)) = 1
      /\ i \in DOMAIN like[q1].lidos /\ i \in DOMAIN like[q2].lidos
      /\ like[q1].lidos[i] = like[q2].lidos[i]
      /\ \A q3 \in DOMAIN like \ {q1, q2} :
           \/ like[q3].pc \in {"idle", "notfound", "erro"}
           \/ /\ like[q3].pc = "ok" /\ i \notin DOMAIN like[q3].lidos
              /\ like[q3].obra_id \notin {like[q1].obra_id, like[q2].obra_id} )
    => perfil[i].peso = like[q1].lidos[i] + 2

\* C2: when the like requests ran one after the other, from an empty profile,
\* the weight of each tag T is the number of committed toggles that moved an
\* artwork carrying T from not liked to liked.
C2_WeightCountsLikes ==
  ~sobreposto =>
    \A t \in TagsEm(perfil, perfil) :
      WeightOf(perfil, t) =
        Cardinality({q \in DOMAIN like : LikedBy(q) /\ t \in TagsDe(like[q].obra_id)})

\* C3: in every step, whatever the interleaving: the entries' tags stay
\* distinct and normalized, every weight is at least 1, no entry is deleted
\* and no weight decreases.
C3_ProfileInvariants ==
  [][ /\ \A i, j \in 1..Len(perfil') : i # j => perfil'[i].tag # perfil'[j].tag
      /\ \A i \in 1..Len(perfil') :
           /\ perfil'[i].peso >= 1
           /\ perfil'[i].tag # <<>> /\ perfil'[i].tag = Lower(Strip(perfil'[i].tag))
      /\ Len(perfil') >= Len(perfil)
      /\ \A i \in 1..Len(perfil) :
           /\ perfil'[i].tag = perfil[i].tag
           /\ perfil'[i].peso >= perfil[i].peso ]_vars

\* the part of C3 that holds: distinct normalized tags, weights >= 1, no entry
\* deleted or renamed
ProfileWellFormed ==
  /\ \A i, j \in 1..Len(perfil) : i # j => perfil[i].tag # perfil[j].tag
  /\ \A i \in 1..Len(perfil) :
       /\ perfil[i].peso >= 1
       /\ perfil[i].tag # <<>> /\ perfil[i].tag = Lower(Strip(perfil[i].tag))

\* C4: a commit of a like request changes the entries of the artwork's own
\* normalized non-empty tags only, and only when it turns the artwork to
\* liked: every other entry keeps its weight, no other entry appears; each own
\* tag has an entry afterwards, of weight 1 if it had none, and of a higher
\* weight than before if the request's read of it was still current.  No other
\* step of a like request changes the profile.
C4_LikeFrame ==
  [][ \A q \in DOMAIN like :
        like'[q] # like[q] =>
          IF like[q].pc = "commit" /\ like'[q].pc = "refresh"
          THEN LET own == IF like[q].curtiu THEN TagsDe(like[q].obra_id) ELSE {}
               IN \A t \in TagsEm(perfil, perfil') :
                    IF t \in own
                    THEN /\ WeightOf(perfil', t) >= 1
                         /\ WeightOf(perfil, t) = 0 => WeightOf(perfil', t) = 1
                         /\ (\A i \in DOMAIN like[q].lidos :
                               perfil[i].tag = t => perfil[i].peso = like[q].lidos[i])
                            /\ WeightOf(perfil, t) > 0
                            => WeightOf(perfil', t) > WeightOf(perfil, t)
                    ELSE WeightOf(perfil', t) = WeightOf(perfil, t)
          ELSE perfil' = perfil ]_vars

\* C4's case: after likes of two artworks that share the tag a, one of them
\* also carrying b, the entry of a has weight 2 and that of b weight 1
C4_Witness ==
  /\ WeightOf(perfil, <<"a">>) = 2
  /\ WeightOf(perfil, <<"b">>) = 1
  /\ \E q1, q2 \in DOMAIN like :
       /\ q1 # q2 /\ like[q1].pc = "ok" /\ like[q2].pc = "ok"
       /\ like[q1].curtiu /\ like[q2].curtiu
       /\ TagsDe(like[q1].obra_id) = {<<"a">>}
       /\ TagsDe(like[q2].obra_id) = {<<"a">>, <<"b">>}

\* C5: with the requests one after the other, a like request that turns an
\* artwork to liked completes, and its commit raises the weight of each
\* distinct normalized tag of the artwork by exactly 1.
C5_OncePerLikeEvent ==
  [][ \A q \in DOMAIN like :
        (~sobreposto /\ like[q].pc = "commit" /\ like[q].curtiu /\ like'[q] # like[q])
        => /\ like'[q].pc = "refresh"
           /\ \A t \in TagsDe(like[q].obra_id) :
                WeightOf(perfil', t) = WeightOf(perfil, t) + 1 ]_vars

\* the rows of table t that run r added
RowsOf(t, r) == {i \in 1..Len(t) : t[i].run = r}

\* C6: a run that failed, at whatever stage, has left no row in the table.
C6_FailedRunCommitsNothing ==
  \A r \in Runs : run[r].pc = "Failed" => RowsOf(obras, r) = {}

\* C6's case: a run failed after its curator call (in the call, the loop or
\* the commit) while the table holds another run's rows
C6_Witness ==
  \E r \in Runs : run[r].pc = "Failed" /\ run[r].curou = 1 /\ obras # <<>>

\* C7: the table, and every response of the feed query, holds either none of
\* a run's rows or all the rows that run commits.
C7_AtomicVisibility ==
  \A r \in Runs :
    /\ Cardinality(RowsOf(obras, r)) \in {0, run[r].salvas}
    /\ Cardinality({i \in feed : obras[i].run = r}) \in {0, run[r].salvas}
    /\ RowsOf(obras, r) # {} => run[r].pc = "Done"

\* C7's case: the feed returned the two or more rows of one run while another
\* run is about to commit
C7_Witness ==
  \E r, r2 \in Runs :
    /\ run[r].salvas >= 2
    /\ Cardinality({i \in feed : obras[i].run = r}) = run[r].salvas
    /\ run[r2].pc = "Persisting"

\* C8: a run whose two searches returned no usable candidate ends in Done with
\* its merge step, without a call of the curator, without a row saved and with
\* the tables as they were; and no step of a run before its curator call
\* changes a table.
C8_EmptyMarketIsDone ==
  [][ \A r \in Runs :
        run'[r] # run[r] =>
          /\ (run[r].pc = "Deduplicating" /\ run[r].obras_gpt = <<>>
                /\ run[r].obras_extra = <<>>)
             => /\ run'[r].pc = "Done"
                /\ run'[r].curou = 0
                /\ run'[r].salvas = 0
                /\ RowsOf(obras', r) = {}
          /\ run[r].curou = 0 => obras' = obras /\ perfil' = perfil ]_vars

\* C8's case: a run ended in Done without having called the curator
C8_Witness ==
  \E r \in Runs : run[r].pc = "Done" /\ run[r].curou = 0 /\ run[r].salvas = 0

\* C9: when the first search returned a usable candidate, the run goes on to
\* the merge whatever happens to the second search, a failed search
\* contributing no candidate; and a merge that follows a failed search and a
\* search with candidates goes on to the curator.
C9_SourceFailureNonFatal ==
  [][ \A r \in Runs :
        run'[r] # run[r] =>
          /\ (run[r].pc = "Fetching" /\ Len(run[r].buscas) = 1
                /\ run[r].obras_gpt # <<>>)
             => /\ run'[r].pc = "Deduplicating"
                /\ run'[r].buscas[2] # "ok" => run'[r].obras_extra = <<>>
          /\ (run[r].pc = "Deduplicating"
                /\ \/ run[r].buscas[1] # "ok" /\ run[r].obras_extra # <<>>
                   \/ run[r].buscas[2] # "ok" /\ run[r].obras_gpt # <<>>)
             => run'[r].pc = "Curating" ]_vars

\* the selections whose index names a candidate: present, an integer, from 0
\* to len(todas) - 1
Validas(trad, todas) ==
  SelectSeq(trad, LAMBDA sel : /\ "index" \in DOMAIN sel
                               /\ sel.index.t = "int"
                               /\ sel.index.v >= 0
                               /\ sel.index.v < Len(todas))

\* C10: the rows a run commits are those of the selections whose index names a
\* candidate, one each, in order, with that candidate's image; every other
\* selection gives no row.
C10_BadBackReferenceDropped ==
  [][ \A r \in Runs :
        (run[r].pc = "Persisting" /\ run'[r].pc = "Done") =>
          LET v == Validas(run[r].obras_traduzidas, run[r].todas_obras)
          IN /\ Len(obras') = Len(obras) + Len(v)
             /\ \A i \in 1..Len(v) :
                  obras'[Len(obras) + i].imagem_url =
                    run[r].todas_obras[v[i].index.v + 1].image_id ]_vars

\* the number of works the curator is asked to select
MaxOut == 10

\* C11: whatever list the curator returns, a list of more than 10 selections
\* included, one run leaves at most 10 rows in the table.
C11_OutputCapped ==
  \A r \in Runs : Cardinality(RowsOf(obras, r)) <= MaxOut

\* the position in s of the first candidate whose image_id is id
Primeira(s, id) ==
  CHOOSE i \in 1..Len(s) :
    s[i].image_id = id /\ \A j \in 1..(i - 1) : s[j].image_id # id

\* C12: the merged list a run goes on with is no longer than its two search
\* results together, holds no image_id twice, holds every image_id of the two
\* results, in the order in which the ids first occur in the first result
\* followed by the second, each with the candidate (title, artist) of that
\* first occurrence; a run only stops at the merge when both results are empty.
C12_DedupMerge ==
  [][ \A r \in Runs :
        (run[r].pc = "Deduplicating" /\ run'[r] # run[r]) =>
          LET s == run[r].obras_gpt \o run[r].obras_extra
              m == run'[r].todas_obras
          IN /\ run'[r].pc # "Curating" => s = <<>>
             /\ run'[r].pc = "Curating" =>
                  /\ Len(m) <= Len(run[r].obras_gpt) + Len(run[r].obras_extra)
                  /\ \A i, j \in 1..Len(m) : i # j => m[i].image_id # m[j].image_id
                  /\ {m[i].image_id : i \in 1..Len(m)} = {s[i].image_id : i \in 1..Len(s)}
                  /\ \A i \in 1..Len(m) : m[i] = s[Primeira(s, m[i].image_id)]
                  /\ \A i, j \in 1..Len(m) :
                       i < j => Primeira(s, m[i].image_id) < Primeira(s, m[j].image_id) ]_vars

\* C12's case: the merge of a first result with X1 and a second with another
\* X1 (other title, no artist) and X2 kept the first X1, then X2
C12_Witness ==
  \E r \in Runs :
    /\ run[r].pc = "Curating"
    /\ run[r].todas_obras =
         << [titulo_original |-> "t1", artista |-> "p1", image_id |-> "X1"],
            [titulo_original |-> "t1", artista |-> "p2", image_id |-> "X2"] >>

\* C13: no step of a run removes or changes a row that is in the table, and
\* after it every run that is Done has all the rows it committed in the
\* table: two successful runs for one date, one after the other or
\* interleaved, leave both batches whole.
C13_RunsAppend ==
  [][ \A r \in Runs :
        run'[r] # run[r] =>
          /\ Len(obras') >= Len(obras)
          /\ \A i \in 1..Len(obras) : obras'[i] = obras[i]
          /\ \A r2 \in Runs :
               run'[r2].pc = "Done" =>
                 Cardinality(RowsOf(obras', r2)) = run'[r2].salvas ]_vars

\* C13's case: a scheduled and a manual run are both Done for the same date,
\* each with rows, and the run that started second committed first
C13_Witness ==
  /\ run[1].pc = "Done" /\ run[2].pc = "Done"
  /\ run[1].origem # run[2].origem
  /\ run[1].salvas >= 1 /\ run[2].salvas >= 1
  /\ \A i \in 1..Len(obras) : obras[i].data_exibicao = hoje
  /\ obras[1].run = 2 /\ obras[Len(obras)].run = 1

\* the stages of a run, in the order of the statements of rodar_curadoria
Estagios ==
  << "Idle", "ReadingProfile", "SynthesizingQuery", "Fetching", "Deduplicating",
     "Curating", "Persisting", "Done" >>

Pos(pc) == CHOOSE i \in 1..Len(Estagios) : Estagios[i] = pc

\* C14: a step of a run moves it to the next stage of ReadingProfile,
\* SynthesizingQuery, Fetching, Deduplicating, Curating, Persisting, Done, or
\* to Failed, or (for an empty merge) from Deduplicating to Done; only a
\* search keeps it in its stage; a run that is Done or Failed takes no step,
\* so no stage is entered twice.  The merge starts only when both searches
\* have answered, the curator is called at most once and only in Curating, and
\* the table changes only in the step from Persisting (after the curator's
\* answer) to Done.
C14_StageOrder ==
  [][ \A r \in Runs :
        run'[r] # run[r] =>
          /\ run[r].pc \notin {"Done", "Failed"}
          /\ run'[r].pc # run[r].pc =>
               \/ run'[r].pc = "Failed" /\ run[r].pc # "Idle"
               \/ run'[r].pc = Estagios[Pos(run[r].pc) + 1]
               \/ run[r].pc = "Deduplicating" /\ run'[r].pc = "Done"
          /\ run'[r].pc = run[r].pc => run[r].pc = "Fetching"
          /\ run'[r].pc = "Deduplicating" =>
               /\ Len(run'[r].buscas) = 2
               /\ \A i \in 1..2 : run'[r].buscas[i] \in {"ok", "http"}
          /\ run'[r].curou <= 1
          /\ run'[r].curou # run[r].curou => run[r].pc = "Curating"
          /\ obras' # obras =>
               /\ run[r].pc = "Persisting" /\ run[r].curou = 1
               /\ run'[r].pc = "Done" ]_vars

\* C14's case: a scheduled run went through every stage and committed rows
C14_Witness ==
  \E r \in Runs :
    /\ run[r].pc = "Done" /\ run[r].origem = "agendado"
    /\ run[r].curou = 1 /\ run[r].salvas >= 1
    /\ RowsOf(obras, r) # {}

\* C15: every run that was started ends, as Done or as Failed.
C15_RunTerminates ==
  \A r \in Runs : (run[r].pc # "Idle") ~> (run[r].pc \in {"Done", "Failed"})

\* C16: no step of a run changes the profile, whatever the run's outcome: the
\* profile changes only in the commit of a like request that turns an artwork
\* to liked.
C16_PipelineLeavesProfile ==
  [][ /\ (\E r \in Runs : run'[r] # run[r]) => perfil' = perfil
      /\ perfil' # perfil =>
           \E q \in DOMAIN like :
             /\ like[q].pc = "commit" /\ like'[q].pc = "refresh"
             /\ like[q].curtiu ]_vars

\* C16's case: a run has read a profile that holds entries, and they are
\* still there
C16_Witness ==
  \E r \in Runs :
    /\ run[r].pc = "SynthesizingQuery"
    /\ run[r].gosto # <<>>
    /\ \A i \in 1..Len(run[r].gosto) : WeightOf(perfil, run[r].gosto[i]) >= 1

\* C17: the manual trigger answers with its fixed text in the step that
\* starts the run, before the run has done anything, whatever other runs are
\* doing; it changes no table and no other run; and what it answered stays
\* the same however the run ends.
C17_FireAndForget ==
  [][ \A r \in Runs :
        /\ (run[r].pc = "Idle" /\ run'[r].origem = "manual") =>
             /\ run'[r].resposta = "Curadoria iniciada em background!"
             /\ run'[r].pc = "ReadingProfile"
             /\ obras' = obras /\ perfil' = perfil
             /\ \A r2 \in Runs \ {r} : run'[r2] = run[r2]
        /\ run[r].origem = "manual" => run'[r].resposta = run[r].resposta ]_vars

\* C17's case: a manual run has failed, its trigger's answer being what it
\* was, while a scheduled run that started before it is still in progress
C17_Witness ==
  \E r1, r2 \in Runs :
    /\ r1 < r2
    /\ run[r1].origem = "agendado" /\ ~Terminal(run[r1])
    /\ run[r2].origem = "manual" /\ run[r2].pc = "Failed"
    /\ run[r2].resposta = "Curadoria iniciada em background!"

\* C18: when every selection of the curator's answer names a candidate, the
\* loop does not raise, and the commit adds one row per selection, in order: a
\* selection without a title gets the placeholder, one without tags gets empty
\* tags, next to the rows of the other selections.  A like request on an
\* artwork with empty tags leaves the profile as it is.
C18_FieldDefaults ==
  [][ /\ \A r \in Runs :
           LET trad == run[r].obras_traduzidas
               todas == run[r].todas_obras
           IN (run[r].pc = "Persisting" /\ run'[r] # run[r]
                 /\ Validas(trad, todas) = trad) =>
                /\ Novas(trad, todas, hoje, r).ok
                /\ run'[r].pc = "Done" =>
                     /\ Len(obras') = Len(obras) + Len(trad)
                     /\ \A i \in 1..Len(trad) :
                          LET row == obras'[Len(obras) + i]
                          IN /\ row.titulo[1] = Get(trad[i], "titulo", "Sem titulo")
                             /\ row.tags_extraidas = Get(trad[i], "tags", <<>>)
                             /\ row.imagem_url = todas[trad[i].index.v + 1].image_id
      /\ \A q \in DOMAIN like :
           (like'[q] # like[q] /\ like'[q].obra_id \in 1..Len(obras)
              /\ obras[like'[q].obra_id].tags_extraidas = <<>>) => perfil' = perfil ]_vars

\* C18's case: a selection without title and tags was saved with the
\* placeholder and empty tags, before the row of the next selection of the same
\* answer; it was then liked, and the profile is empty
C18_Witness ==
  \E q \in DOMAIN like :
    /\ like[q].pc = "ok" /\ like[q].resposta
    /\ LET id == like[q].obra_id
       IN /\ obras[id].titulo[1] = "Sem titulo"
          /\ obras[id].tags_extraidas = <<>>
          /\ obras[id].curtiu
          /\ id < Len(obras) /\ obras[id + 1].run = obras[id].run
    /\ perfil = <<>>

\* C19: the flag of the artwork and the profile change together, in the one
\* commit of a like request.  A commit that fails (a new tag has got a row by
\* now, or is added twice) changes neither.  A commit that goes through writes
\* the flag the request set; if that is liked, every tag of the artwork has a
\* row afterwards and every row the request read has a weight above the one it
\* read; if that is not liked, the profile stays.  No other step of a request
\* changes a table, and the profile never changes without a flag turning to
\* liked in the same step.
C19_LikeAtomic ==
  [][ /\ \A q \in DOMAIN like :
           like'[q] # like[q] =>
             IF like[q].pc = "commit"
             THEN LET id == like[q].obra_id
                  IN \/ /\ like'[q].pc = "erro"
                        /\ obras' = obras /\ perfil' = perfil
                     \/ /\ like'[q].pc = "refresh"
                        /\ obras'[id].curtiu = like[q].curtiu
                        /\ IF like[q].curtiu
                           THEN /\ \A t \in TagsDe(id) : WeightOf(perfil', t) >= 1
                                /\ \A i \in DOMAIN like[q].lidos :
                                     /\ perfil'[i].tag \in TagsDe(id)
                                     /\ perfil'[i].peso > like[q].lidos[i]
                           ELSE perfil' = perfil
             ELSE obras' = obras /\ perfil' = perfil
      /\ perfil' # perfil =>
           \E q \in DOMAIN like :
             /\ like[q].pc = "commit" /\ like'[q].pc = "refresh"
             /\ obras'[like[q].obra_id].curtiu ]_vars

\* C19's case: two requests liked two artworks that share a tag without a row;
\* the commit of one went through, the other's failed on the tag both had
\* added, and its artwork is not liked
C19_Witness ==
  \E q1, q2 \in DOMAIN like :
    /\ like[q1].pc = "erro" /\ LikedBy(q2)
    /\ like[q1].obra_id # like[q2].obra_id
    /\ ~obras[like[q1].obra_id].curtiu
    /\ \A t \in TagsDe(like[q1].obra_id) :
         Conta(t, TagList(obras[like[q1].obra_id].tags_extraidas)) = 1
    /\ \E t \in TagsDe(like[q1].obra_id) \cap TagsDe(like[q2].obra_id) :
         WeightOf(perfil, t) = 1

\* C20: a like request for an id that has no row answers not found and
\* changes no table.  Every step of a request for an artwork leaves the number
\* of rows, every other row, and the title, image, tags and date of its own
\* row as they were; its commit writes the flag the request set, the opposite
\* of the one it read, and its answer is the flag of the row as committed.
C20_LikeConfined ==
  [][ \A q \in DOMAIN like :
        like'[q] # like[q] =>
          LET id == like'[q].obra_id
          IN /\ Len(obras') = Len(obras)
             /\ \A i \in 1..Len(obras) : i # id => obras'[i] = obras[i]
             /\ IF id \in 1..Len(obras)
                THEN /\ like'[q].pc # "notfound"
                     /\ [obras'[id] EXCEPT !.curtiu = obras[id].curtiu] = obras[id]
                     /\ like[q].pc = "idle" => like'[q].curtiu = ~obras[id].curtiu
                     /\ like'[q].pc = "refresh" => obras'[id].curtiu = like[q].curtiu
                     /\ like'[q].pc = "ok" => like'[q].resposta = obras[id].curtiu
                     /\ (like'[q].pc = "ok" /\ ~sobreposto) =>
                          like'[q].resposta = like[q].curtiu
                ELSE /\ like'[q].pc = "notfound"
                     /\ obras' = obras /\ perfil' = perfil ]_vars

\* C20's case: one request liked an artwork while the others stay not liked,
\* and a request for an id without a row got not found
C20_Witness ==
  \E q1, q2 \in DOMAIN like :
    /\ like[q1].pc = "ok" /\ like[q1].resposta
    /\ like[q2].pc = "notfound"
    /\ Len(obras) >= 2
    /\ \A i \in 1..Len(obras) : obras[i].curtiu = (i = like[q1].obra_id)

=============================================================================
